---------------------------- MODULE Spec2Model ----------------------------
(***************************************************************************)
(* A model of puceny (src/puceny.py): the analysis pipeline, the           *)
(* IndexWriter with its in-memory buffers and its commit to a segment      *)
(* directory, the IndexReader that loads every segment into memory, the    *)
(* Searcher and the IndexMerger.                                           *)
(*                                                                         *)
(* Representation.                                                         *)
(*  - A text is a sequence of one-character strings.  A term is a text.    *)
(*  - A Python dict whose iteration order is observed (the postings of a   *)
(*    term, doc_id -> positions) is a sequence of records in insertion     *)
(*    order.  A dict that is only looked up or counted (term -> postings,  *)
(*    doc_id -> fields, name -> value) is a function on its key set.       *)
(*  - The files are the JSON images of those dicts.  json.dump/json.load   *)
(*    keep the insertion order of a dict and the model's keys are strings  *)
(*    already, so a file holds the value that was dumped.                  *)
(*  - Scores are IEEE doubles in the code; the model keeps them as exact   *)
(*    rationals scaled by ScoreScale.                                      *)
(*  - The index directory is used by one writer or one merger at a time    *)
(*    (the code takes no lock; this is the usage every operation assumes). *)
(***************************************************************************)
EXTENDS Integers, Sequences, FiniteSets, TLC

(***************************************************************************)
(* Bounds of the model.                                                    *)
(***************************************************************************)
\* Spec: add_document, commit and merge_all calls in a run
MaxAdds == 3
MaxCommits == 3
MaxMerges == 2
\* SpecReader: the same with a reader
MaxReaderAdds == 2
MaxReaderCommits == 2
MaxReaderMerges == 1
\* SpecBatch: add_document and commit calls in a run
MaxBatchAdds == 2
MaxBatchCommits == 2
\* SpecSearch: add_document and commit calls in a run
MaxSearchAdds == 2
MaxSearchCommits == 2
\* SpecAnalyze: the length of the text given to the analyzer
MaxTextLen == 4
\* SpecCommitFault: add_document calls, commits that succeed, writes that fail
MaxFaultAdds == 2
MaxFaultCommits == 2
MaxWriteFaults == 1
\* SpecLost: add_document, commit and merge_all calls, files or directories lost
MaxLostAdds == 2
MaxLostCommits == 2
MaxLostMerges == 1
MaxLost == 1
\* SpecInterrupt: add_document calls, commits that complete, commits interrupted
MaxInterruptAdds == 2
MaxInterruptCommits == 2
MaxInterrupts == 1

(***************************************************************************)
(* Generic helpers for dicts.                                              *)
(***************************************************************************)
EmptyDict == << >>

Put(d, k, v) == [x \in (DOMAIN d) \cup {k} |-> IF x = k THEN v ELSE d[x]]

\* dict.update(other): every key of other is set, the rest is kept
Update(d, other) ==
  [x \in (DOMAIN d) \cup (DOMAIN other) |->
     IF x \in DOMAIN other THEN other[x] ELSE d[x]]

\* dict.get(k, {})
Get(d, k) == IF k \in DOMAIN d THEN d[k] ELSE EmptyDict

Range(s) == {s[i] : i \in DOMAIN s}

(***************************************************************************)
(* FieldType                                                               *)
(***************************************************************************)
TEXT == "text"
KEYWORD == "keyword"
STORED == "stored"
FieldType == {TEXT, KEYWORD, STORED}

(***************************************************************************)
(* Characters.  \w of Python's re on str: letters, digits and underscore,   *)
(* the letters of Unicode included.  "U+0130" stands for the one character *)
(* LATIN CAPITAL LETTER I WITH DOT ABOVE, a letter, and "U+0307" for the   *)
(* one character COMBINING DOT ABOVE, a mark that \w does not match.       *)
(***************************************************************************)
LowerLetters == {"a", "b", "c", "e", "h", "i", "n", "t"}
UpperLetters == {"A", "B", "C", "T", "U+0130"}
Digits == {"0", "1"}
Separators == {" ", "-", ".", "U+0307"}
Alphabet == LowerLetters \cup UpperLetters \cup Digits \cup {"_"} \cup Separators

IsWordChar(c) == c \in LowerLetters \cup UpperLetters \cup Digits \cup {"_"}

\* str.lower() on one character: the characters it becomes
LowerChar(c) ==
  CASE c = "A" -> <<"a">>
    [] c = "B" -> <<"b">>
    [] c = "C" -> <<"c">>
    [] c = "T" -> <<"t">>
    [] c = "U+0130" -> <<"i", "U+0307">>
    [] OTHER -> <<c>>

\* str.lower()
RECURSIVE Lower(_)
Lower(s) == IF s = << >> THEN << >> ELSE LowerChar(Head(s)) \o Lower(Tail(s))

(***************************************************************************)
(* Tokenizer.tokenize: re.split(r"\W+", text), then the empty fragments    *)
(* are dropped.  RawSplit keeps the empty fragment re.split returns before *)
(* a leading and after a trailing run of separators.                       *)
(***************************************************************************)
RECURSIVE SplitFrom(_, _, _, _)
SplitFrom(text, i, cur, inSep) ==
  IF i > Len(text) THEN <<cur>>
  ELSE IF IsWordChar(text[i])
       THEN SplitFrom(text, i + 1, Append(cur, text[i]), FALSE)
       ELSE IF inSep THEN SplitFrom(text, i + 1, cur, TRUE)
            ELSE <<cur>> \o SplitFrom(text, i + 1, << >>, TRUE)

RawSplit(text) == SplitFrom(text, 1, << >>, FALSE)

\* str.strip() != "" on a fragment
NotBlank(t) == \E i \in DOMAIN t : t[i] # " "

Tokenize(text) == SelectSeq(RawSplit(text), NotBlank)

\* LowercaseFilter.filter
LowercaseFilter(tokens) == [i \in DOMAIN tokens |-> Lower(tokens[i])]

\* Analyzer.__init__: the default stop words
DefaultStopwords ==
  { <<"t", "h", "e">>, <<"i", "s">>, <<"a">>, <<"a", "n">>, <<"o", "f">>,
    <<"f", "o", "r">>, <<"a", "n", "d">>, <<"t", "o">>, <<"i", "n">> }

\* StopwordFilter.__init__: the stop words, lowercased
Stopwords == {Lower(w) : w \in DefaultStopwords}

NotStopword(t) == Lower(t) \notin Stopwords

\* StopwordFilter.filter
StopwordFilter(tokens) == SelectSeq(tokens, NotStopword)

\* Analyzer.analyze: tokenize -> lowercase -> stop words
Analyze(text) == StopwordFilter(LowercaseFilter(Tokenize(text)))

(***************************************************************************)
(* The inverted index: term -> postings, postings a sequence of            *)
(* [doc_id, positions] in the order the doc_ids were first posted.         *)
(***************************************************************************)
PostingDocs(postings) == {postings[i].doc_id : i \in DOMAIN postings}

PostingIndex(postings, doc_id) ==
  CHOOSE i \in DOMAIN postings : postings[i].doc_id = doc_id

\* postings[doc_id], for a doc_id of the postings
PositionsOf(postings, doc_id) == postings[PostingIndex(postings, doc_id)].positions

\* inverted_index[term] of a defaultdict(dict), read
Postings(inverted_index, term) ==
  IF term \in DOMAIN inverted_index THEN inverted_index[term] ELSE << >>

\* if doc_id not in inverted_index[term]: inverted_index[term][doc_id] = []
\* inverted_index[term][doc_id].append(pos)
AppendPosition(inverted_index, term, doc_id, pos) ==
  LET postings == Postings(inverted_index, term) IN
  IF doc_id \notin PostingDocs(postings)
  THEN Put(inverted_index, term,
           Append(postings, [doc_id |-> doc_id, positions |-> <<pos>>]))
  ELSE LET i == PostingIndex(postings, doc_id) IN
       Put(inverted_index, term,
           [postings EXCEPT ![i].positions = Append(@, pos)])

\* positions counted from one
RECURSIVE IndexTokensFromOne(_, _, _, _)
IndexTokensFromOne(inverted_index, doc_id, tokens, i) ==
  IF i > Len(tokens) THEN inverted_index
  ELSE IndexTokensFromOne(AppendPosition(inverted_index, tokens[i], doc_id, i),
                          doc_id, tokens, i + 1)

\* for pos, token in enumerate(tokens): post token at pos
RECURSIVE IndexTokens(_, _, _, _)
IndexTokens(inverted_index, doc_id, tokens, i) ==
  IF i > Len(tokens) THEN inverted_index
  ELSE IndexTokens(AppendPosition(inverted_index, tokens[i], doc_id, i - 1),
                   doc_id, tokens, i + 1)

\* a KEYWORD field posted as it is written, not lowercased
IndexFieldKeywordRaw(inverted_index, doc_id, field) ==
  CASE field.field_type = TEXT ->
         IndexTokens(inverted_index, doc_id, Analyze(field.value), 1)
    [] field.field_type = KEYWORD ->
         AppendPosition(inverted_index, field.value, doc_id, 0)
    [] OTHER -> inverted_index

\* one iteration of add_document's loop over doc.fields, on the index
IndexField(inverted_index, doc_id, field) ==
  CASE field.field_type = TEXT ->
         IndexTokens(inverted_index, doc_id, Analyze(field.value), 1)
    [] field.field_type = KEYWORD ->
         AppendPosition(inverted_index, Lower(field.value), doc_id, 0)
    [] OTHER -> inverted_index

RECURSIVE IndexFields(_, _, _, _)
IndexFields(inverted_index, doc_id, fields, i) ==
  IF i > Len(fields) THEN inverted_index
  ELSE IndexFields(IndexField(inverted_index, doc_id, fields[i]),
                   doc_id, fields, i + 1)

\* the first field of a name wins
RECURSIVE FieldsDataFirstWins(_, _)
FieldsDataFirstWins(fields, i) ==
  IF i = 0 THEN EmptyDict
  ELSE LET before == FieldsDataFirstWins(fields, i - 1) IN
       IF fields[i].name \in DOMAIN before THEN before
       ELSE Put(before, fields[i].name, fields[i].value)

\* doc_fields_data after the loop: the later field of a name wins
RECURSIVE FieldsData(_, _)
FieldsData(fields, i) ==
  IF i = 0 THEN EmptyDict
  ELSE Put(FieldsData(fields, i - 1), fields[i].name, fields[i].value)

(***************************************************************************)
(* Segment names and the index directory.                                  *)
(***************************************************************************)
\* f"{n:03d}"
Pad3(n) ==
  IF n < 10 THEN "00" \o ToString(n)
  ELSE IF n < 100 THEN "0" \o ToString(n)
  ELSE ToString(n)

\* f"segment_{self.segment_count:03d}"
SegmentName(n) == "segment_" \o Pad3(n)

\* merge_all's default new_segment_name
MergedSegment == "merged_segment"

\* every directory name an operation of the model can create
DirNames == {SegmentName(n) : n \in 0..(MaxCommits + 1)} \cup {MergedSegment}

\* a file that does not exist, and one that holds the JSON image of data
NoFile == [exists |-> FALSE, parses |-> FALSE, data |-> << >>]

File(data) == [exists |-> TRUE, parses |-> TRUE, data |-> data]

\* a file opened for writing whose json.dump did not finish: json.load raises
TornFile == [exists |-> TRUE, parses |-> FALSE, data |-> << >>]

\* json.load does not raise on the file if it is there
Loadable(file) == file.exists => file.parses

\* a directory that does not exist
NoDir == [exists |-> FALSE, inverted_index |-> NoFile, document_store |-> NoFile]

\* the directory of a segment with inverted_index.json and document_store.json
SegmentDir(inverted_index, document_store) ==
  [exists |-> TRUE,
   inverted_index |-> File(inverted_index),
   document_store |-> File(document_store)]

(***************************************************************************)
(* Documents.                                                              *)
(***************************************************************************)
Field(name, value, field_type) ==
  [name |-> name, value |-> value, field_type |-> field_type]

Document(doc_id, fields) == [doc_id |-> doc_id, fields |-> fields]

DocIds == {"d1", "d2"}

\* "B c" and "a c-c": the analyzer gives (b, c) and (c, c)
TextBc == <<"B", " ", "c">>
TextAcc == <<"a", " ", "c", "-", "c">>

TextC == <<"C">>

\* the documents the writer is given in Spec: one TEXT field each, a title
\* "B c" or a body "a c-c"
Docs ==
  {Document(d, <<Field("title", TextBc, TEXT)>>) : d \in DocIds}
  \cup {Document(d, <<Field("body", TextAcc, TEXT)>>) : d \in DocIds}

\* the fields of the documents of SpecBatch: two TEXT fields, a KEYWORD field
\* whose term "c" the TEXT fields post too, and a STORED field named like a
\* TEXT field
BatchFields ==
  { Field("title", TextBc, TEXT), Field("body", TextAcc, TEXT),
    Field("tag", TextC, KEYWORD), Field("title", TextC, STORED) }

\* the documents of SpecBatch: d1 with one or two fields, d2 with one
BatchDocs ==
  {Document("d1", <<f>>) : f \in BatchFields}
  \cup {Document("d1", <<f, g>>) : f \in BatchFields, g \in BatchFields}
  \cup {Document("d2", <<f>>) : f \in BatchFields}

(***************************************************************************)
(* State.                                                                  *)
(***************************************************************************)
VARIABLES
  segments_file,      \* <index_dir>/segments.json: a file holding the segment list
  dirs,               \* <index_dir>/<name>/ for every name of DirNames
  w_open,             \* an IndexWriter exists
  w_inverted_index,   \* IndexWriter.inverted_index
  w_document_store,   \* IndexWriter.document_store
  w_doc_count,        \* IndexWriter.doc_count
  w_segments_info,    \* IndexWriter.segments_info["segments"]
  w_segment_count,    \* IndexWriter.segment_count
  r_open,             \* an IndexReader exists
  r_inverted_index,   \* IndexReader.inverted_index
  r_doc_store,        \* IndexReader.doc_store
  r_total_doc_count,  \* IndexReader.total_doc_count
  r_term_doc_freq,    \* IndexReader.term_doc_freq
  m_pc,               \* where merge_all stands: idle, written, manifest
  m_segments,         \* merge_all's local segments; from the manifest's rewrite
                      \* on, those whose directory is still to be removed
  m_doc_count,        \* len(merged_doc_store) in merge_all
  lastOp,             \* history: the operation that completed last
  nAdds,              \* history: add_document calls so far
  nCommits,           \* history: commit calls so far
  nMerges,            \* history: merge_all calls so far
  batch,              \* history: the documents added since the last commit
  committed,          \* history: the documents committed so far, in order
  lastSegment,        \* history: the name of the segment the last commit wrote
  w_c0,               \* history: the manifest's length when the writer was opened
  w_k,                \* history: the commits of this writer so far
  m_before,           \* history: what a reader loaded just before merge_all
  a_pc,               \* where a caller of the analyzer stands
  a_text,             \* the text the caller gives to Analyzer.analyze
  a_terms,            \* analyze(text)
  a_again,            \* analyze(" ".join(analyze(text)))
  nFaults,            \* history: the writes that failed and the files lost so far
  orphan              \* history: the directory the last interrupted commit left,
                      \* and whether a commit has written to its name since

disk == <<segments_file, dirs>>
writer == <<w_open, w_inverted_index, w_document_store, w_doc_count,
            w_segments_info, w_segment_count>>
reader == <<r_open, r_inverted_index, r_doc_store, r_total_doc_count,
            r_term_doc_freq>>
merger == <<m_pc, m_segments, m_doc_count>>
counters == <<nAdds, nCommits, nMerges>>
session == <<w_c0, w_k>>
analysis == <<a_pc, a_text, a_terms, a_again>>
vars == <<disk, writer, reader, merger, lastOp, counters, batch, committed,
          lastSegment, session, m_before, analysis, nFaults, orphan>>

(***************************************************************************)
(* IndexReader.__init__: the segments of the manifest, in order, merged    *)
(* into one inverted index and one document store.                         *)
(***************************************************************************)
\* for doc_id, positions in postings.items(): adopt, or extend
RECURSIVE MergePostings(_, _, _)
MergePostings(acc, postings, i) ==
  IF i > Len(postings) THEN acc
  ELSE LET p == postings[i] IN
       IF p.doc_id \notin PostingDocs(acc)
       THEN MergePostings(Append(acc, p), postings, i + 1)
       ELSE LET j == PostingIndex(acc, p.doc_id) IN
            MergePostings([acc EXCEPT ![j].positions = @ \o p.positions],
                          postings, i + 1)

\* for term, postings in inv_idx.items(): ...
MergeIndex(acc, inv_idx) ==
  [t \in (DOMAIN acc) \cup (DOMAIN inv_idx) |->
     IF t \in DOMAIN inv_idx
     THEN MergePostings(Postings(acc, t), inv_idx[t], 1)
     ELSE acc[t]]

\* the reader's loop body for one segment
ReaderLoadSegment(acc, dir) ==
  [inverted_index |->
     IF dir.exists /\ dir.inverted_index.exists
     THEN MergeIndex(acc.inverted_index, dir.inverted_index.data)
     ELSE acc.inverted_index,
   doc_store |->
     IF dir.exists /\ dir.document_store.exists
     THEN Update(acc.doc_store, dir.document_store.data)
     ELSE acc.doc_store]

RECURSIVE ReaderLoadFrom(_, _, _)
ReaderLoadFrom(segments, ds, i) ==
  IF i = 0 THEN [inverted_index |-> EmptyDict, doc_store |-> EmptyDict]
  ELSE ReaderLoadSegment(ReaderLoadFrom(segments, ds, i - 1), ds[segments[i].name])

\* json.load raises on no file the reader opens
ReaderCanLoad(segments, ds) ==
  \A i \in DOMAIN segments :
    /\ Loadable(ds[segments[i].name].inverted_index)
    /\ Loadable(ds[segments[i].name].document_store)

\* the reader's fields after __init__ on a manifest and the directories
ReaderLoad(segments, ds) ==
  LET loaded == ReaderLoadFrom(segments, ds, Len(segments)) IN
  [inverted_index |-> loaded.inverted_index,
   doc_store |-> loaded.doc_store,
   total_doc_count |-> Cardinality(DOMAIN loaded.doc_store),
   term_doc_freq |->
     [t \in DOMAIN loaded.inverted_index |-> Len(loaded.inverted_index[t])]]

\* the fields of the reader that exists
TheReader ==
  [inverted_index |-> r_inverted_index, doc_store |-> r_doc_store,
   total_doc_count |-> r_total_doc_count, term_doc_freq |-> r_term_doc_freq]

\* a reader that goes back to the files at every lookup
terms_docs_from_disk(rd, term) ==
  Get(ReaderLoad(segments_file.data, dirs).inverted_index, term)

\* IndexReader.terms_docs
terms_docs(rd, term) == Get(rd.inverted_index, term)

\* IndexReader.get_document
get_document(rd, doc_id) == Get(rd.doc_store, doc_id)

(***************************************************************************)
(* Searcher.search_with_scores.  doc_scores is a dict in insertion order:  *)
(* a sequence of [doc_id, score].  A score is the code's float times       *)
(* ScoreScale, which makes every idf an integer.                           *)
(***************************************************************************)
RECURSIVE OddProduct(_)
OddProduct(n) == IF n = 0 THEN 1 ELSE (2 * n + 1) * OddProduct(n - 1)

\* a multiple of every 2 * doc_freq + 1
ScoreScale == OddProduct(Cardinality(DocIds))

\* idf = 1.0 + (total_docs - doc_freq + 0.5) / (doc_freq + 0.5)
Idf(total_docs, doc_freq) ==
  ScoreScale + ((2 * (total_docs - doc_freq) + 1) * ScoreScale) \div (2 * doc_freq + 1)

\* Query.__init__: operator.upper()
UpperOperator(op) ==
  CASE op \in {"and", "And", "AND"} -> "AND"
    [] op \in {"or", "Or", "OR"} -> "OR"
    [] OTHER -> op

Query(terms, operator) == [terms |-> terms, operator |-> UpperOperator(operator)]

\* the raw terms looked up as they are written, not analyzed
NormalizedTermsRaw(terms, i) == SubSeq(terms, 1, i)

\* normalized_terms: every raw term analyzed, the results concatenated
RECURSIVE NormalizedTerms(_, _)
NormalizedTerms(terms, i) ==
  IF i = 0 THEN << >>
  ELSE NormalizedTerms(terms, i - 1) \o Analyze(terms[i])

ScoreDocs(doc_scores) == {doc_scores[i].doc_id : i \in DOMAIN doc_scores}

\* doc_scores[doc_id] = score: the last term's score replaces the sum
AddScoreOverwrite(doc_scores, doc_id, score) ==
  IF doc_id \in {doc_scores[i].doc_id : i \in DOMAIN doc_scores}
  THEN LET i == CHOOSE j \in DOMAIN doc_scores : doc_scores[j].doc_id = doc_id IN
       [doc_scores EXCEPT ![i].score = score]
  ELSE Append(doc_scores, [doc_id |-> doc_id, score |-> score])

\* doc_scores[doc_id] += score, on a defaultdict(float)
AddScore(doc_scores, doc_id, score) ==
  IF doc_id \in ScoreDocs(doc_scores)
  THEN LET i == CHOOSE j \in DOMAIN doc_scores : doc_scores[j].doc_id = doc_id IN
       [doc_scores EXCEPT ![i].score = @ + score]
  ELSE Append(doc_scores, [doc_id |-> doc_id, score |-> score])

\* for doc_id, positions in term_docs.items(): doc_scores[doc_id] += tf * idf
RECURSIVE ScorePostings(_, _, _, _)
ScorePostings(doc_scores, term_docs, idf, i) ==
  IF i > Len(term_docs) THEN doc_scores
  ELSE ScorePostings(
         AddScore(doc_scores, term_docs[i].doc_id, Len(term_docs[i].positions) * idf),
         term_docs, idf, i + 1)

\* for term in normalized_terms: ...
RECURSIVE ScoreTerms(_, _, _)
ScoreTerms(rd, terms, i) ==
  IF i = 0 THEN << >>
  ELSE LET doc_scores == ScoreTerms(rd, terms, i - 1)
           term_docs == terms_docs(rd, terms[i])
           doc_freq == IF terms[i] \in DOMAIN rd.term_doc_freq
                       THEN rd.term_doc_freq[terms[i]] ELSE 0
       IN IF Len(term_docs) > 0
          THEN ScorePostings(doc_scores, term_docs,
                             Idf(rd.total_doc_count, doc_freq), 1)
          ELSE doc_scores

\* a filter that keeps a doc_id that some normalized term posts
HasSomeTerm(rd, terms, doc_id) ==
  \E i \in DOMAIN terms : doc_id \in PostingDocs(terms_docs(rd, terms[i]))

\* the AND filter keeps a doc_id that every normalized term posts
HasAllTerms(rd, terms, doc_id) ==
  \A i \in DOMAIN terms : doc_id \in PostingDocs(terms_docs(rd, terms[i]))

\* list.sort(key=score, reverse=True): stable, equal scores keep their order
RECURSIVE InsertByScore(_, _, _)
InsertByScore(sorted, e, i) ==
  IF i > Len(sorted) THEN Append(sorted, e)
  ELSE IF sorted[i].score < e.score
       THEN SubSeq(sorted, 1, i - 1) \o <<e>> \o SubSeq(sorted, i, Len(sorted))
       ELSE InsertByScore(sorted, e, i + 1)

RECURSIVE SortByScore(_, _)
SortByScore(scored, i) ==
  IF i = 0 THEN << >>
  ELSE InsertByScore(SortByScore(scored, i - 1), scored[i], 1)

\* the AND filter applied whatever the operator is
search_with_scores_filter_always(rd, query) ==
  LET normalized_terms == NormalizedTerms(query.terms, Len(query.terms))
      doc_scores == ScoreTerms(rd, normalized_terms, Len(normalized_terms))
      KeptByAnd(e) == HasAllTerms(rd, normalized_terms, e.doc_id)
      scored_docs == SelectSeq(doc_scores, KeptByAnd)
  IN IF Len(normalized_terms) = 0 THEN << >>
     ELSE SortByScore(scored_docs, Len(scored_docs))

\* Searcher.search_with_scores
search_with_scores(rd, query) ==
  LET normalized_terms == NormalizedTerms(query.terms, Len(query.terms))
      doc_scores == ScoreTerms(rd, normalized_terms, Len(normalized_terms))
      KeptByAnd(e) == HasAllTerms(rd, normalized_terms, e.doc_id)
      scored_docs == IF query.operator = "AND"
                     THEN SelectSeq(doc_scores, KeptByAnd)
                     ELSE doc_scores
  IN IF Len(normalized_terms) = 0 THEN << >>
     ELSE SortByScore(scored_docs, Len(scored_docs))

\* Searcher.search
search(rd, query) ==
  LET scored_docs == search_with_scores(rd, query) IN
  [i \in DOMAIN scored_docs |-> scored_docs[i].doc_id]

(***************************************************************************)
(* IndexMerger.merge_all: the merge of the segments' files.                *)
(***************************************************************************)
\* the merger's loop body for one segment
MergerLoadSegment(acc, dir) ==
  IF ~(dir.exists /\ dir.inverted_index.exists /\ dir.document_store.exists)
  THEN acc
  ELSE LET doc_store == dir.document_store.data IN
       [inverted_index |-> MergeIndex(acc.inverted_index, dir.inverted_index.data),
        doc_store |->
          [d \in (DOMAIN acc.doc_store) \cup (DOMAIN doc_store) |->
             IF d \notin DOMAIN doc_store THEN acc.doc_store[d]
             ELSE IF d \notin DOMAIN acc.doc_store THEN doc_store[d]
             ELSE Update(acc.doc_store[d], doc_store[d])]]

RECURSIVE MergerLoadFrom(_, _, _)
MergerLoadFrom(segments, ds, i) ==
  IF i = 0 THEN [inverted_index |-> EmptyDict, doc_store |-> EmptyDict]
  ELSE MergerLoadSegment(MergerLoadFrom(segments, ds, i - 1), ds[segments[i].name])

MergerLoad(segments, ds) == MergerLoadFrom(segments, ds, Len(segments))

\* json.load raises on no file the merger opens: it opens the two files of a
\* segment when both are there
MergerCanLoad(segments, ds) ==
  \A i \in DOMAIN segments :
    LET dir == ds[segments[i].name] IN
    (dir.inverted_index.exists /\ dir.document_store.exists) =>
      (dir.inverted_index.parses /\ dir.document_store.parses)

(***************************************************************************)
(* Init: an empty index directory, no writer, no reader.                   *)
(***************************************************************************)
NoOrphan == [name |-> "", dir |-> NoDir, reused |-> FALSE]

EmptyReader ==
  [inverted_index |-> EmptyDict, doc_store |-> EmptyDict,
   total_doc_count |-> 0, term_doc_freq |-> EmptyDict]

Init ==
  /\ segments_file = NoFile
  /\ dirs = [n \in DirNames |-> NoDir]
  /\ w_open = FALSE
  /\ w_inverted_index = EmptyDict
  /\ w_document_store = EmptyDict
  /\ w_doc_count = 0
  /\ w_segments_info = << >>
  /\ w_segment_count = 0
  /\ r_open = FALSE
  /\ r_inverted_index = EmptyDict
  /\ r_doc_store = EmptyDict
  /\ r_total_doc_count = 0
  /\ r_term_doc_freq = EmptyDict
  /\ m_pc = "idle"
  /\ m_segments = << >>
  /\ m_doc_count = 0
  /\ lastOp = "init"
  /\ nAdds = 0
  /\ nCommits = 0
  /\ nMerges = 0
  /\ batch = << >>
  /\ committed = << >>
  /\ lastSegment = ""
  /\ w_c0 = 0
  /\ w_k = 0
  /\ m_before = EmptyReader
  /\ a_pc = "idle"
  /\ a_text = << >>
  /\ a_terms = << >>
  /\ a_again = << >>
  /\ nFaults = 0
  /\ orphan = NoOrphan

(***************************************************************************)
(* IndexWriter                                                             *)
(***************************************************************************)
\* a counter that starts at zero whatever the manifest lists
SegmentCountFromZero(segments_info) == 0

\* _load_segments_info: self.segment_count = len(self.segments_info["segments"])
SegmentCount(segments_info) == Len(segments_info)

\* IndexWriter.__init__ with _load_segments_info
OpenWriter ==
  /\ ~w_open
  /\ m_pc = "idle"
  /\ Loadable(segments_file)
  /\ w_open' = TRUE
  /\ w_inverted_index' = EmptyDict
  /\ w_document_store' = EmptyDict
  /\ w_doc_count' = 0
  /\ w_segments_info' = IF segments_file.exists THEN segments_file.data ELSE << >>
  /\ w_segment_count' = SegmentCount(w_segments_info')
  /\ lastOp' = "open_writer"
  /\ batch' = << >>
  /\ w_c0' = Len(w_segments_info')
  /\ w_k' = 0
  /\ UNCHANGED <<orphan, nFaults, analysis, disk, reader, merger, counters, committed, lastSegment, m_before>>

\* the writer is dropped; what it buffered is gone
CloseWriter ==
  /\ w_open
  /\ w_open' = FALSE
  /\ w_inverted_index' = EmptyDict
  /\ w_document_store' = EmptyDict
  /\ w_doc_count' = 0
  /\ w_segments_info' = << >>
  /\ w_segment_count' = 0
  /\ lastOp' = "close_writer"
  /\ batch' = << >>
  /\ UNCHANGED <<orphan, nFaults, analysis, disk, reader, merger, counters, committed, lastSegment, session,
                 m_before>>

\* an add_document that flushes the buffers to the next segment's directory
AddDocumentWriteThrough(doc) ==
  /\ w_open
  /\ w_doc_count' = w_doc_count + 1
  /\ w_inverted_index' = IndexFields(w_inverted_index, doc.doc_id, doc.fields, 1)
  /\ w_document_store' =
       Put(w_document_store, doc.doc_id, FieldsData(doc.fields, Len(doc.fields)))
  /\ dirs' = [dirs EXCEPT ![SegmentName(w_segment_count)] =
                SegmentDir(w_inverted_index', w_document_store')]
  /\ lastOp' = "add_document"
  /\ nAdds' = nAdds + 1
  /\ batch' = Append(batch, doc)
  /\ UNCHANGED <<orphan, nFaults, analysis, segments_file, w_open, w_segments_info, w_segment_count, reader,
                 merger, nCommits, nMerges, committed, lastSegment, session, m_before>>

\* IndexWriter.add_document
AddDocument(doc) ==
  /\ w_open
  /\ w_doc_count' = w_doc_count + 1
  /\ w_inverted_index' = IndexFields(w_inverted_index, doc.doc_id, doc.fields, 1)
  /\ w_document_store' =
       Put(w_document_store, doc.doc_id, FieldsData(doc.fields, Len(doc.fields)))
  /\ lastOp' = "add_document"
  /\ nAdds' = nAdds + 1
  /\ batch' = Append(batch, doc)
  /\ UNCHANGED <<orphan, nFaults, analysis, disk, w_open, w_segments_info, w_segment_count, reader, merger,
                 nCommits, nMerges, committed, lastSegment, session, m_before>>

\* a commit that leaves segment_count as it is
CommitKeepsCount ==
  /\ w_open
  /\ LET segment_name == SegmentName(w_segment_count) IN
     /\ dirs' = [dirs EXCEPT
                   ![segment_name] = SegmentDir(w_inverted_index, w_document_store)]
     /\ w_segments_info' =
          Append(w_segments_info, [name |-> segment_name, doc_count |-> w_doc_count])
     /\ lastSegment' = segment_name
  /\ segments_file' = File(w_segments_info')
  /\ w_inverted_index' = EmptyDict
  /\ w_document_store' = EmptyDict
  /\ w_doc_count' = 0
  /\ w_segment_count' = w_segment_count
  /\ lastOp' = "commit"
  /\ nCommits' = nCommits + 1
  /\ batch' = << >>
  /\ committed' = committed \o batch
  /\ w_k' = w_k + 1
  /\ orphan' = IF orphan.name = SegmentName(w_segment_count)
               THEN [orphan EXCEPT !.reused = TRUE] ELSE orphan
  /\ UNCHANGED <<nFaults, analysis, w_open, reader, merger, nAdds, nMerges, w_c0, m_before>>

\* IndexWriter.commit with _save_segments_info
Commit ==
  /\ w_open
  /\ LET segment_name == SegmentName(w_segment_count) IN
     /\ dirs' = [dirs EXCEPT
                   ![segment_name] = SegmentDir(w_inverted_index, w_document_store)]
     /\ w_segments_info' =
          Append(w_segments_info, [name |-> segment_name, doc_count |-> w_doc_count])
     /\ lastSegment' = segment_name
  /\ segments_file' = File(w_segments_info')
  /\ w_inverted_index' = EmptyDict
  /\ w_document_store' = EmptyDict
  /\ w_doc_count' = 0
  /\ w_segment_count' = w_segment_count + 1
  /\ lastOp' = "commit"
  /\ nCommits' = nCommits + 1
  /\ batch' = << >>
  /\ committed' = committed \o batch
  /\ w_k' = w_k + 1
  /\ orphan' = IF orphan.name = SegmentName(w_segment_count)
               THEN [orphan EXCEPT !.reused = TRUE] ELSE orphan
  /\ UNCHANGED <<nFaults, analysis, w_open, reader, merger, nAdds, nMerges, w_c0, m_before>>

\* the segment directory when commit stops at the write of a file: the
\* directory is made, the files written before are whole, the file at which
\* commit stops is as before when open() raised and torn when json.dump did
\* not finish, the files after it are as before
PartialSegment(dir, inverted_index, document_store, step, torn) ==
  LET failed(file) == IF torn THEN TornFile ELSE file IN
  CASE step = "inverted_index" ->
         [exists |-> TRUE,
          inverted_index |-> failed(dir.inverted_index),
          document_store |-> dir.document_store]
    [] step = "document_store" ->
         [exists |-> TRUE,
          inverted_index |-> File(inverted_index),
          document_store |-> failed(dir.document_store)]
    [] OTHER -> SegmentDir(inverted_index, document_store)

\* commit raises at the write of a file: of inverted_index.json, of
\* document_store.json or, in _save_segments_info, of segments.json.  The
\* file is as before when open() raised, torn when json.dump raised.  What
\* commit did before the write stays done, what follows it is not done.
CommitFails(step, torn) ==
  /\ w_open
  /\ LET segment_name == SegmentName(w_segment_count) IN
     /\ dirs' = [dirs EXCEPT ![segment_name] =
                   PartialSegment(@, w_inverted_index, w_document_store, step, torn)]
     /\ w_segments_info' =
          IF step = "manifest"
          THEN Append(w_segments_info,
                      [name |-> segment_name, doc_count |-> w_doc_count])
          ELSE w_segments_info
     /\ segments_file' = IF step = "manifest" /\ torn THEN TornFile
                         ELSE segments_file
  /\ lastOp' = "commit_error"
  /\ nFaults' = nFaults + 1
  /\ UNCHANGED <<orphan, analysis, w_open, w_inverted_index, w_document_store,
                 w_doc_count, w_segment_count, reader, merger, counters, batch,
                 committed, lastSegment, session, m_before>>

\* an interrupted commit that has rewritten segments.json before the
\* segment's files
CommitInterruptedManifestFirst(step, torn) ==
  /\ w_open
  /\ LET segment_name == SegmentName(w_segment_count) IN
     /\ dirs' = [dirs EXCEPT ![segment_name] =
                   PartialSegment(@, w_inverted_index, w_document_store, step, torn)]
     /\ orphan' = [name |-> segment_name, dir |-> dirs'[segment_name],
                   reused |-> FALSE]
     /\ segments_file' =
          File(Append(w_segments_info,
                      [name |-> segment_name, doc_count |-> w_doc_count]))
  /\ w_open' = FALSE
  /\ w_inverted_index' = EmptyDict
  /\ w_document_store' = EmptyDict
  /\ w_doc_count' = 0
  /\ w_segments_info' = << >>
  /\ w_segment_count' = 0
  /\ lastOp' = "commit_interrupted"
  /\ nFaults' = nFaults + 1
  /\ batch' = << >>
  /\ UNCHANGED <<analysis, reader, merger, counters, committed, lastSegment,
                 session, m_before>>

\* the process stops inside commit before segments.json is opened for
\* writing: at the write of inverted_index.json, at the write of
\* document_store.json or, with both written, before the manifest's.  The
\* writer is gone with its buffers; the directory stays as commit left it.
CommitInterrupted(step, torn) ==
  /\ w_open
  /\ LET segment_name == SegmentName(w_segment_count) IN
     /\ dirs' = [dirs EXCEPT ![segment_name] =
                   PartialSegment(@, w_inverted_index, w_document_store, step, torn)]
     /\ orphan' = [name |-> segment_name, dir |-> dirs'[segment_name],
                   reused |-> FALSE]
  /\ w_open' = FALSE
  /\ w_inverted_index' = EmptyDict
  /\ w_document_store' = EmptyDict
  /\ w_doc_count' = 0
  /\ w_segments_info' = << >>
  /\ w_segment_count' = 0
  /\ lastOp' = "commit_interrupted"
  /\ nFaults' = nFaults + 1
  /\ batch' = << >>
  /\ UNCHANGED <<analysis, segments_file, reader, merger, counters, committed,
                 lastSegment, session, m_before>>

(***************************************************************************)
(* The environment: a file or the directory of a segment is removed        *)
(* between two operations.                                                 *)
(***************************************************************************)
LoseSegment(name, part) ==
  /\ m_pc = "idle"
  /\ dirs[name].exists
  /\ part = "inverted_index" => dirs[name].inverted_index.exists
  /\ part = "document_store" => dirs[name].document_store.exists
  /\ dirs' = [dirs EXCEPT ![name] =
                CASE part = "inverted_index" -> [@ EXCEPT !.inverted_index = NoFile]
                  [] part = "document_store" -> [@ EXCEPT !.document_store = NoFile]
                  [] OTHER -> NoDir]
  /\ lastOp' = "lose_segment"
  /\ nFaults' = nFaults + 1
  /\ UNCHANGED <<orphan, analysis, segments_file, writer, reader, merger, counters, batch,
                 committed, lastSegment, session, m_before>>

(***************************************************************************)
(* IndexReader                                                             *)
(***************************************************************************)
\* IndexReader.__init__ raises: open(segments_file) when the file is missing,
\* json.load when a file it opens does not parse.  No reader is constructed.
OpenReaderFails ==
  /\ \/ ~segments_file.exists
     \/ ~segments_file.parses
     \/ ~ReaderCanLoad(segments_file.data, dirs)
  /\ lastOp' = "open_reader_error"
  /\ UNCHANGED <<orphan, nFaults, analysis, disk, writer, reader, merger, counters, batch,
                 committed, lastSegment, session, m_before>>

\* IndexReader.__init__
OpenReader ==
  /\ segments_file.exists
  /\ segments_file.parses
  /\ ReaderCanLoad(segments_file.data, dirs)
  /\ LET rd == ReaderLoad(segments_file.data, dirs) IN
     /\ r_inverted_index' = rd.inverted_index
     /\ r_doc_store' = rd.doc_store
     /\ r_total_doc_count' = rd.total_doc_count
     /\ r_term_doc_freq' = rd.term_doc_freq
  /\ r_open' = TRUE
  /\ lastOp' = "open_reader"
  /\ UNCHANGED <<orphan, nFaults, analysis, disk, writer, merger, counters, batch, committed, lastSegment,
                 session, m_before>>

(***************************************************************************)
(* IndexMerger.merge_all(new_segment_name="merged_segment"), in the order  *)
(* of its writes: the new segment's files, the manifest, the old           *)
(* directories.                                                            *)
(***************************************************************************)
\* merge_all raises before it writes: open(segments_file) when the file is
\* missing, json.load when a file it opens does not parse
MergeAllFails ==
  /\ m_pc = "idle"
  /\ ~w_open
  /\ \/ ~segments_file.exists
     \/ ~segments_file.parses
     \/ Len(segments_file.data) > 1 /\ ~MergerCanLoad(segments_file.data, dirs)
  /\ lastOp' = "merge_error"
  /\ nMerges' = nMerges + 1
  /\ UNCHANGED <<orphan, nFaults, analysis, disk, writer, reader, merger, nAdds, nCommits,
                 batch, committed, lastSegment, session, m_before>>

\* len(segments) <= 1: nothing to merge
MergeAllNothing ==
  /\ m_pc = "idle"
  /\ ~w_open
  /\ segments_file.exists
  /\ segments_file.parses
  /\ Len(segments_file.data) <= 1
  /\ lastOp' = "merge_nothing"
  /\ nMerges' = nMerges + 1
  /\ UNCHANGED <<orphan, nFaults, analysis, disk, writer, reader, merger, nAdds, nCommits, batch, committed,
                 lastSegment, session, m_before>>

\* the segments are read and merged, the new segment's two files written
MergeAllWrite ==
  /\ m_pc = "idle"
  /\ ~w_open
  /\ segments_file.exists
  /\ segments_file.parses
  /\ Len(segments_file.data) > 1
  /\ MergerCanLoad(segments_file.data, dirs)
  /\ LET merged == MergerLoad(segments_file.data, dirs) IN
     /\ dirs' = [dirs EXCEPT
                   ![MergedSegment] = SegmentDir(merged.inverted_index, merged.doc_store)]
     /\ m_doc_count' = Cardinality(DOMAIN merged.doc_store)
  /\ m_segments' = segments_file.data
  /\ m_pc' = "written"
  /\ m_before' = ReaderLoad(segments_file.data, dirs)
  /\ lastOp' = "merge_write"
  /\ nMerges' = nMerges + 1
  /\ UNCHANGED <<orphan, nFaults, analysis, segments_file, writer, reader, nAdds, nCommits, batch, committed,
                 lastSegment, session>>

\* segments.json is rewritten to the one new entry
MergeAllManifest ==
  /\ m_pc = "written"
  /\ segments_file' = File(<<[name |-> MergedSegment, doc_count |-> m_doc_count]>>)
  /\ m_pc' = "manifest"
  /\ lastOp' = "merge_manifest"
  /\ UNCHANGED <<orphan, nFaults, analysis, dirs, writer, reader, m_segments, m_doc_count, counters, batch,
                 committed, lastSegment, session, m_before>>

\* for seg in segments: the next old segment directory is removed, if it is
\* there; merge_all returns after the last one
MergeAllDelete ==
  /\ m_pc = "manifest"
  /\ m_segments # << >>
  /\ dirs' = [dirs EXCEPT ![Head(m_segments).name] = NoDir]
  /\ m_segments' = Tail(m_segments)
  /\ IF Tail(m_segments) = << >>
     THEN m_pc' = "idle" /\ m_doc_count' = 0 /\ lastOp' = "merge_all"
     ELSE m_pc' = "manifest" /\ m_doc_count' = m_doc_count /\ lastOp' = "merge_delete"
  /\ UNCHANGED <<orphan, nFaults, analysis, segments_file, writer, reader, counters, batch,
                 committed, lastSegment, session, m_before>>

(***************************************************************************)
(* The specification: writer sessions, readers and merges, one operation   *)
(* at a time on the index directory.                                       *)
(***************************************************************************)
WriterNext ==
  \/ OpenWriter
  \/ CloseWriter
  \/ \E doc \in Docs : nAdds < MaxAdds /\ AddDocument(doc)
  \/ nCommits < MaxCommits /\ Commit

MergerNext ==
  \/ nMerges < MaxMerges /\ MergeAllNothing
  \/ nMerges < MaxMerges /\ MergeAllWrite
  \/ MergeAllManifest
  \/ MergeAllDelete

Next == WriterNext \/ MergerNext

Spec == Init /\ [][Next]_vars

\* the same with a reader opened at any time
ReaderNext ==
  \/ OpenWriter
  \/ CloseWriter
  \/ \E doc \in Docs : nAdds < MaxReaderAdds /\ AddDocument(doc)
  \/ nCommits < MaxReaderCommits /\ Commit
  \/ OpenReader
  \/ nMerges < MaxReaderMerges /\ MergeAllNothing
  \/ nMerges < MaxReaderMerges /\ MergeAllWrite
  \/ MergeAllManifest
  \/ MergeAllDelete

SpecReader == Init /\ [][ReaderNext]_vars

\* one writer alone, on documents with every field type
BatchNext ==
  \/ OpenWriter
  \/ \E doc \in BatchDocs : nAdds < MaxBatchAdds /\ AddDocument(doc)
  \/ nCommits < MaxBatchCommits /\ Commit

SpecBatch == Init /\ [][BatchNext]_vars

\* one writer, and a reader opened at any time for the searcher
SearchNext ==
  \/ OpenWriter
  \/ \E doc \in Docs : nAdds < MaxSearchAdds /\ AddDocument(doc)
  \/ nCommits < MaxSearchCommits /\ Commit
  \/ OpenReader

SpecSearch == Init /\ [][SearchNext]_vars

\* one writer whose commits can fail at a write
CommitFaultNext ==
  \/ OpenWriter
  \/ \E doc \in Docs : nAdds < MaxFaultAdds /\ AddDocument(doc)
  \/ nCommits < MaxFaultCommits /\ Commit
  \/ \E step \in {"inverted_index", "document_store", "manifest"} :
       \E torn \in BOOLEAN : nFaults < MaxWriteFaults /\ CommitFails(step, torn)

SpecCommitFault == Init /\ [][CommitFaultNext]_vars

\* writer sessions whose commit can be interrupted before the manifest's write
InterruptNext ==
  \/ OpenWriter
  \/ CloseWriter
  \/ \E doc \in Docs : nAdds < MaxInterruptAdds /\ AddDocument(doc)
  \/ nCommits < MaxInterruptCommits /\ Commit
  \/ \E step \in {"inverted_index", "document_store"} : \E torn \in BOOLEAN :
       nFaults < MaxInterrupts /\ CommitInterrupted(step, torn)
  \/ nFaults < MaxInterrupts /\ CommitInterrupted("manifest", FALSE)

SpecInterrupt == Init /\ [][InterruptNext]_vars

\* writer sessions, readers and merges on a directory that loses files
LostNext ==
  \/ OpenWriter
  \/ CloseWriter
  \/ \E doc \in Docs : nAdds < MaxLostAdds /\ AddDocument(doc)
  \/ nCommits < MaxLostCommits /\ Commit
  \/ \E name \in DirNames : \E part \in {"inverted_index", "document_store", "dir"} :
       nFaults < MaxLost /\ LoseSegment(name, part)
  \/ OpenReader
  \/ OpenReaderFails
  \/ nMerges < MaxLostMerges /\ MergeAllFails
  \/ nMerges < MaxLostMerges /\ MergeAllNothing
  \/ nMerges < MaxLostMerges /\ MergeAllWrite
  \/ MergeAllManifest
  \/ MergeAllDelete

SpecLost == Init /\ [][LostNext]_vars

(***************************************************************************)
(* A caller of the analyzer alone: it analyzes a text, joins the terms     *)
(* with single spaces and analyzes the result.                             *)
(***************************************************************************)
\* the characters of the texts: letters, digits and a space
AnalyzeChars == {"a", "n", "B", "T", "1", " ", "U+0130"}

Texts == UNION {[1..n -> AnalyzeChars] : n \in 0..MaxTextLen}

\* " ".join(terms)
RECURSIVE Join(_)
Join(terms) ==
  IF terms = << >> THEN << >>
  ELSE IF Len(terms) = 1 THEN terms[1]
  ELSE terms[1] \o <<" ">> \o Join(Tail(terms))

InitAnalyze ==
  /\ segments_file = NoFile
  /\ dirs = [n \in DirNames |-> NoDir]
  /\ w_open = FALSE
  /\ w_inverted_index = EmptyDict
  /\ w_document_store = EmptyDict
  /\ w_doc_count = 0
  /\ w_segments_info = << >>
  /\ w_segment_count = 0
  /\ r_open = FALSE
  /\ r_inverted_index = EmptyDict
  /\ r_doc_store = EmptyDict
  /\ r_total_doc_count = 0
  /\ r_term_doc_freq = EmptyDict
  /\ m_pc = "idle"
  /\ m_segments = << >>
  /\ m_doc_count = 0
  /\ lastOp = "init"
  /\ nAdds = 0
  /\ nCommits = 0
  /\ nMerges = 0
  /\ batch = << >>
  /\ committed = << >>
  /\ lastSegment = ""
  /\ w_c0 = 0
  /\ w_k = 0
  /\ m_before = EmptyReader
  /\ a_pc = "text"
  /\ a_text \in Texts
  /\ a_terms = << >>
  /\ a_again = << >>
  /\ nFaults = 0
  /\ orphan = NoOrphan

\* terms = analyzer.analyze(text)
AnalyzeText ==
  /\ a_pc = "text"
  /\ a_terms' = Analyze(a_text)
  /\ a_pc' = "analyzed"
  /\ UNCHANGED <<orphan, nFaults, disk, writer, reader, merger, lastOp, counters, batch, committed,
                 lastSegment, session, m_before, a_text, a_again>>

\* again = analyzer.analyze(" ".join(terms))
AnalyzeJoined ==
  /\ a_pc = "analyzed"
  /\ a_again' = Analyze(Join(a_terms))
  /\ a_pc' = "done"
  /\ UNCHANGED <<orphan, nFaults, disk, writer, reader, merger, lastOp, counters, batch, committed,
                 lastSegment, session, m_before, a_text, a_terms>>

AnalyzeNext == AnalyzeText \/ AnalyzeJoined

SpecAnalyze == InitAnalyze /\ [][AnalyzeNext]_vars

(***************************************************************************)
(* What the claims speak of.                                               *)
(***************************************************************************)
\* the reader a caller would get by opening one now
DiskReader == ReaderLoad(segments_file.data, dirs)

\* the terms a check looks up: the model's terms, present or not
Terms == {<<"b">>, <<"c">>, <<"a">>, <<"t">>, <<"b", " ", "c">>}

\* the raw query terms and the queries a check runs
RawTerms == {<<"B">>, <<"c">>, <<"b", " ", "c">>, <<"a">>}

RawTermLists ==
  {<< >>} \cup {<<t>> : t \in RawTerms} \cup {<<t, u>> : t \in RawTerms, u \in RawTerms}

Queries == {Query(ts, op) : ts \in RawTermLists, op \in {"AND", "or"}}

\* the names segments.json lists
ManifestNames ==
  IF segments_file.exists
  THEN {segments_file.data[i].name : i \in DOMAIN segments_file.data}
  ELSE {}

\* the segment directories on disk that hold both files
CompleteDir(dir) == dir.exists /\ dir.inverted_index.exists /\ dir.document_store.exists

PresentSegments == {n \in DirNames : CompleteDir(dirs[n])}

\* "segment_" and the index zero-padded to three digits, written out
PaddedName(n) ==
  <<"segment_000", "segment_001", "segment_002", "segment_003", "segment_004",
    "segment_005", "segment_006", "segment_007", "segment_008", "segment_009">>[n + 1]

(***************************************************************************)
(* C1.  A reader opened after merge_all returns the same terms_docs for    *)
(* every term and the same get_document for every doc_id as a reader       *)
(* opened just before merge_all.                                           *)
(***************************************************************************)
C1_MergeKeepsObservations ==
  lastOp = "merge_all" =>
    /\ \A t \in Terms : terms_docs(DiskReader, t) = terms_docs(m_before, t)
    /\ \A d \in DocIds : get_document(DiskReader, d) = get_document(m_before, d)

(***************************************************************************)
(* C2.  For every query, search_with_scores over a reader opened after     *)
(* merge_all returns the same (doc_id, score) sequence, in the same order, *)
(* as over a reader opened just before merge_all.                          *)
(***************************************************************************)
C2_MergeKeepsSearchResults ==
  lastOp = "merge_all" =>
    \A q \in Queries :
      search_with_scores(DiskReader, q) = search_with_scores(m_before, q)

(***************************************************************************)
(* C3.  After every completed commit or merge_all the names segments.json  *)
(* lists are exactly the segment directories on disk with both files.      *)
(***************************************************************************)
C3_ManifestMatchesDisk ==
  lastOp \in {"commit", "merge_all"} => ManifestNames = PresentSegments

(***************************************************************************)
(* C4.  The files of a segment the manifest lists never change in a later  *)
(* step of commit or merge_all; the segment can only lose its whole        *)
(* directory.                                                              *)
(***************************************************************************)
C4_CommittedSegmentsImmutable ==
  [][\A n \in ManifestNames :
       CompleteDir(dirs[n]) => (dirs'[n] = dirs[n] \/ dirs'[n] = NoDir)]_vars

(***************************************************************************)
(* C5.  The k-th commit of a writer opened on a manifest of c0 entries     *)
(* writes the segment named segment_(c0 + k - 1), zero-padded to three     *)
(* digits, and the manifest lists the writer's segments in that order      *)
(* after the c0 entries it found.                                          *)
(***************************************************************************)
C5_CommitNamesInOrder ==
  (w_open /\ w_k >= 1) =>
    /\ lastSegment = PaddedName(w_c0 + w_k - 1)
    /\ CompleteDir(dirs[lastSegment])
    /\ segments_file.exists
    /\ Len(segments_file.data) = w_c0 + w_k
    /\ \A i \in 1..w_k : segments_file.data[w_c0 + i].name = PaddedName(w_c0 + i - 1)

\* a writer opened on a manifest that already lists segments has committed twice
C5_Witness == w_open /\ w_c0 >= 1 /\ w_k >= 2 /\ lastOp = "commit"

(***************************************************************************)
(* C6.  A reader is a snapshot: one opened right after a commit holds the  *)
(* documents and the postings of the segment that commit wrote, and the    *)
(* reader that exists returns the same terms_docs, get_document,           *)
(* total_doc_count and term_doc_freq after every later step of a writer or *)
(* a merger.                                                               *)
(***************************************************************************)
IsSuffix(s, t) == Len(s) <= Len(t) /\ SubSeq(t, Len(t) - Len(s) + 1, Len(t)) = s

SeesSegment(rd, dir) ==
  /\ \A d \in DOMAIN dir.document_store.data :
       get_document(rd, d) = dir.document_store.data[d]
  /\ \A t \in DOMAIN dir.inverted_index.data :
       \A i \in DOMAIN dir.inverted_index.data[t] :
         LET p == dir.inverted_index.data[t][i] IN
         /\ p.doc_id \in PostingDocs(terms_docs(rd, t))
         /\ IsSuffix(p.positions, PositionsOf(terms_docs(rd, t), p.doc_id))

ReaderObservations ==
  [terms_docs |-> [t \in Terms |-> terms_docs(TheReader, t)],
   get_document |-> [d \in DocIds |-> get_document(TheReader, d)],
   total_doc_count |-> r_total_doc_count,
   term_doc_freq |-> r_term_doc_freq]

C6_ReaderIsSnapshot ==
  [][/\ (lastOp = "commit" /\ lastOp' = "open_reader")
          => SeesSegment(TheReader', dirs[lastSegment])
     /\ (r_open /\ lastOp' # "open_reader")
          => ReaderObservations' = ReaderObservations]_vars

\* a commit has completed while a reader opened earlier exists, and the reader
\* does not hold what a reader opened now would
C6_Witness ==
  /\ r_open
  /\ lastOp = "commit"
  /\ r_doc_store # DiskReader.doc_store
  /\ r_inverted_index # DiskReader.inverted_index

(***************************************************************************)
(* C7.  add_document changes only the writer's buffers: segments.json and  *)
(* every segment directory stay as they are (so a reader opened after it   *)
(* loads what one opened before it did), the reader that exists observes   *)
(* the same as before, and dropping the writer without a commit leaves the *)
(* disk as it is too.                                                      *)
(***************************************************************************)
C7_AddDocumentLeavesDisk ==
  [][lastOp' \in {"add_document", "close_writer"} =>
       /\ segments_file' = segments_file
       /\ dirs' = dirs
       /\ ReaderObservations' = ReaderObservations]_vars

\* a writer was dropped with documents it never committed, with a manifest on
\* disk and a reader open
C7_Witness ==
  /\ lastOp = "close_writer"
  /\ nAdds > Len(committed)
  /\ segments_file.exists
  /\ r_open

(***************************************************************************)
(* What C8, C9 and C10 compare the index with: the positions of a term in  *)
(* an analyzed stream, and what the fields of the documents added under a  *)
(* doc_id post for a term, field after field.                              *)
(***************************************************************************)
\* the 0-based positions of term in stream, ascending
PositionsIn(term, stream) ==
  LET Hit(p) == stream[p + 1] = term IN
  SelectSeq([i \in 1..Len(stream) |-> i - 1], Hit)

FieldPositions(term, field) ==
  CASE field.field_type = TEXT -> PositionsIn(term, Analyze(field.value))
    [] field.field_type = KEYWORD ->
         IF Lower(field.value) = term THEN <<0>> ELSE << >>
    [] OTHER -> << >>

RECURSIVE FieldsPositions(_, _, _)
FieldsPositions(term, fields, i) ==
  IF i = 0 THEN << >>
  ELSE FieldsPositions(term, fields, i - 1) \o FieldPositions(term, fields[i])

RECURSIVE DocsPositions(_, _, _, _)
DocsPositions(term, doc_id, docs, i) ==
  IF i = 0 THEN << >>
  ELSE DocsPositions(term, doc_id, docs, i - 1)
         \o (IF docs[i].doc_id = doc_id
             THEN FieldsPositions(term, docs[i].fields, Len(docs[i].fields))
             ELSE << >>)

Ascending(positions) ==
  \A i \in 1..(Len(positions) - 1) : positions[i] <= positions[i + 1]

OnlyTextFields(doc) == \A i \in DOMAIN doc.fields : doc.fields[i].field_type = TEXT

\* the terms a document's fields post
DocTerms(doc) ==
  UNION {Range(Analyze(doc.fields[i].value)) : i \in DOMAIN doc.fields}

AddedOnce(i) == \A j \in DOMAIN committed : j # i => committed[j].doc_id # committed[i].doc_id

(***************************************************************************)
(* C8 as stated.  For every committed document with only TEXT fields, one  *)
(* or several, and every term t the analyzer gives for one of its field    *)
(* values, terms_docs(t)[doc_id] is non-empty, ascending, and the list of  *)
(* the positions of t in that analyzed stream.                             *)
(***************************************************************************)
C8_Original ==
  \A i \in DOMAIN committed :
    OnlyTextFields(committed[i]) =>
      \A k \in DOMAIN committed[i].fields :
        LET stream == Analyze(committed[i].fields[k].value) IN
        \A t \in Range(stream) :
          LET term_docs == terms_docs(DiskReader, t) IN
          /\ committed[i].doc_id \in PostingDocs(term_docs)
          /\ PositionsOf(term_docs, committed[i].doc_id) = PositionsIn(t, stream)
          /\ Ascending(PositionsOf(term_docs, committed[i].doc_id))

(***************************************************************************)
(* C8, amended.  On an index built by add_document and commit, for every   *)
(* committed document with only TEXT fields and every term t of its        *)
(* fields, terms_docs(t)[doc_id] is non-empty and holds, in the order of   *)
(* addition, what every field added under that doc_id posts for t: the     *)
(* ascending positions of t in the field's analyzed stream.  For a         *)
(* document of one TEXT field whose doc_id was added once it is the list   *)
(* of the positions of t in the analyzed stream, in ascending order.       *)
(***************************************************************************)
C8_TextPositions ==
  \A i \in DOMAIN committed :
    OnlyTextFields(committed[i]) =>
      \A t \in DocTerms(committed[i]) :
        LET doc == committed[i]
            term_docs == terms_docs(DiskReader, t)
        IN /\ doc.doc_id \in PostingDocs(term_docs)
           /\ Len(PositionsOf(term_docs, doc.doc_id)) > 0
           /\ PositionsOf(term_docs, doc.doc_id)
                = DocsPositions(t, doc.doc_id, committed, Len(committed))
           /\ AddedOnce(i) =>
                PositionsOf(term_docs, doc.doc_id)
                  = FieldsPositions(t, doc.fields, Len(doc.fields))
           /\ (AddedOnce(i) /\ Len(doc.fields) = 1) =>
                /\ PositionsOf(term_docs, doc.doc_id)
                     = PositionsIn(t, Analyze(doc.fields[1].value))
                /\ Ascending(PositionsOf(term_docs, doc.doc_id))

\* two documents are committed, one of them with two TEXT fields that post the
\* same term, the other with one TEXT field that posts a term twice
C8_Witness ==
  /\ lastOp = "commit"
  /\ \E i \in DOMAIN committed :
       /\ OnlyTextFields(committed[i]) /\ AddedOnce(i)
       /\ Len(committed[i].fields) = 2
       /\ Len(PositionsOf(terms_docs(DiskReader, <<"c">>), committed[i].doc_id)) = 3
  /\ \E i \in DOMAIN committed :
       /\ OnlyTextFields(committed[i]) /\ AddedOnce(i)
       /\ Len(committed[i].fields) = 1
       /\ PositionsOf(terms_docs(DiskReader, <<"c">>), committed[i].doc_id) = <<0, 1>>

(***************************************************************************)
(* C9 as stated.  In every segment written by commit each (term, doc_id)   *)
(* posting list is non-empty and its positions are in ascending order.     *)
(***************************************************************************)
SegmentPostingsAscending(dir) ==
  \A t \in DOMAIN dir.inverted_index.data :
    \A i \in DOMAIN dir.inverted_index.data[t] :
      /\ Len(dir.inverted_index.data[t][i].positions) > 0
      /\ Ascending(dir.inverted_index.data[t][i].positions)

C9_Original ==
  [][lastOp' = "commit" => SegmentPostingsAscending(dirs'[lastSegment'])]_vars

(***************************************************************************)
(* C9, amended.  In every segment written by commit each (term, doc_id)    *)
(* posting list is non-empty and holds, in the order the fields were       *)
(* added, the ascending positions of the term in each TEXT field's         *)
(* analyzed stream and one 0 for each KEYWORD field whose lowercased value *)
(* is the term; the segment holds such a list for every term a field of    *)
(* the batch posts; the list is ascending when one field posts the term.   *)
(***************************************************************************)
\* the fields among docs under doc_id that post term
RECURSIVE PostingFields(_, _, _, _)
PostingFields(term, doc_id, docs, i) ==
  IF i = 0 THEN 0
  ELSE PostingFields(term, doc_id, docs, i - 1)
         + (IF docs[i].doc_id = doc_id
            THEN Cardinality({k \in DOMAIN docs[i].fields :
                                FieldPositions(term, docs[i].fields[k]) # << >>})
            ELSE 0)

\* the terms a field posts
FieldTerms(field) ==
  {t \in Range(Analyze(field.value)) \cup {Lower(field.value)} :
     FieldPositions(t, field) # << >>}

\* the terms the documents post
BatchTerms(docs) ==
  UNION {UNION {FieldTerms(docs[i].fields[k]) : k \in DOMAIN docs[i].fields} :
         i \in DOMAIN docs}

SegmentPostsBatch(dir, docs) ==
  LET inv == dir.inverted_index.data IN
  /\ DOMAIN inv = BatchTerms(docs)
  /\ \A t \in DOMAIN inv :
       /\ PostingDocs(inv[t])
            = {d \in DocIds : DocsPositions(t, d, docs, Len(docs)) # << >>}
       /\ \A i \in DOMAIN inv[t] :
            LET p == inv[t][i] IN
            /\ Len(p.positions) > 0
            /\ p.positions = DocsPositions(t, p.doc_id, docs, Len(docs))
            /\ PostingFields(t, p.doc_id, docs, Len(docs)) = 1 => Ascending(p.positions)

C9_SegmentPostings ==
  [][lastOp' = "commit" => SegmentPostsBatch(dirs'[lastSegment'], batch)]_vars

\* a commit wrote a segment with a posting list that is not ascending and
\* with one that a KEYWORD field extended
C9_Witness ==
  /\ lastOp = "commit"
  /\ ~SegmentPostingsAscending(dirs[lastSegment])
  /\ <<"c">> \in DOMAIN dirs[lastSegment].inverted_index.data
  /\ \E i \in DOMAIN committed : \E k \in DOMAIN committed[i].fields :
       committed[i].fields[k].field_type = KEYWORD

LastAdded(i) == \A j \in DOMAIN committed : j > i => committed[j].doc_id # committed[i].doc_id

LastOfName(fields, k) == \A m \in DOMAIN fields : m > k => fields[m].name # fields[k].name

ResultSet(rd, terms, operator) == Range(search(rd, Query(terms, operator)))

\* the terms of a query after analysis, as a set
AnalyzedTerms(terms) == UNION {Range(Analyze(terms[i])) : i \in DOMAIN terms}

\* the doc_ids the reader's index holds a posting of term for
DocsPosting(rd, term) ==
  IF term \in DOMAIN rd.inverted_index
  THEN {rd.inverted_index[term][i].doc_id : i \in DOMAIN rd.inverted_index[term]}
  ELSE {}

(***************************************************************************)
(* C11 as stated.  For every list of raw terms T, the empty list and the   *)
(* lists of stop words included, and every raw term u, the doc_ids of the  *)
(* AND query T + [u] are among the doc_ids of the AND query T.             *)
(***************************************************************************)
C11_Original ==
  r_open =>
    \A T \in RawTermLists : \A u \in RawTerms :
      ResultSet(TheReader, Append(T, u), "AND") \subseteq ResultSet(TheReader, T, "AND")

(***************************************************************************)
(* C11, amended.  For every list of raw terms T that the analyzer leaves   *)
(* at least one term of, and every raw term u, stop words included, the    *)
(* doc_ids of the AND query T + [u] are among the doc_ids of the AND query *)
(* T.  When the analyzer leaves no term of T, the AND query T returns no   *)
(* doc_id and the AND query T + [u] returns what the AND query [u]         *)
(* returns.                                                                *)
(***************************************************************************)
C11_AndMonotone ==
  r_open =>
    \A T \in RawTermLists : \A u \in RawTerms :
      IF AnalyzedTerms(T) # {}
      THEN ResultSet(TheReader, Append(T, u), "AND")
             \subseteq ResultSet(TheReader, T, "AND")
      ELSE /\ ResultSet(TheReader, T, "AND") = {}
           /\ ResultSet(TheReader, Append(T, u), "AND")
                = ResultSet(TheReader, <<u>>, "AND")

\* on a reader of two documents a term added to an AND query removes a doc_id,
\* and a term added to a query of a stop word brings doc_ids
C11_Witness ==
  /\ r_open
  /\ ResultSet(TheReader, <<<<"c">>>>, "AND") = {"d1", "d2"}
  /\ Cardinality(ResultSet(TheReader, <<<<"c">>, <<"B">>>>, "AND")) = 1
  /\ ResultSet(TheReader, <<<<"a">>>>, "AND") = {}
  /\ ResultSet(TheReader, <<<<"a">>, <<"c">>>>, "AND") = {"d1", "d2"}

(***************************************************************************)
(* C12.  For every list of raw terms T and every raw term u, the doc_ids   *)
(* of the OR query T + [u] include the doc_ids of the OR query T.          *)
(***************************************************************************)
C12_OrMonotone ==
  r_open =>
    \A T \in RawTermLists : \A u \in RawTerms :
      ResultSet(TheReader, T, "OR") \subseteq ResultSet(TheReader, Append(T, u), "OR")

\* on a reader of two documents a term added to an OR query brings a doc_id
C12_Witness ==
  /\ r_open
  /\ Cardinality(ResultSet(TheReader, <<<<"B">>>>, "OR")) = 1
  /\ ResultSet(TheReader, <<<<"B">>, <<"c">>>>, "OR") = {"d1", "d2"}

(***************************************************************************)
(* C13.  search_with_scores returns each doc_id once, and exactly: for OR  *)
(* the doc_ids that post at least one term of the analyzed query, for AND  *)
(* the doc_ids that post every term of it (none when a term is not in the  *)
(* index), and nothing when the analyzer leaves no term of the query.      *)
(***************************************************************************)
ScoredIds(scored_docs) == {scored_docs[i].doc_id : i \in DOMAIN scored_docs}

C13_ResultSets ==
  r_open =>
    \A q \in Queries :
      LET scored_docs == search_with_scores(TheReader, q)
          terms == AnalyzedTerms(q.terms)
      IN /\ Cardinality(ScoredIds(scored_docs)) = Len(scored_docs)
         /\ terms = {} => scored_docs = << >>
         /\ (terms # {} /\ q.operator = "AND") =>
              ScoredIds(scored_docs)
                = {d \in DocIds : \A t \in terms : d \in DocsPosting(TheReader, t)}
         /\ (terms # {} /\ q.operator # "AND") =>
              ScoredIds(scored_docs)
                = {d \in DocIds : \E t \in terms : d \in DocsPosting(TheReader, t)}

\* the reader holds one document that posts b and c and one that posts c only:
\* the AND and the OR query (B, c) differ, and the AND query of c and a term
\* the index does not hold returns nothing
C13_Witness ==
  /\ r_open
  /\ Cardinality(DocsPosting(TheReader, <<"b">>)) = 1
  /\ DocsPosting(TheReader, <<"c">>) = {"d1", "d2"}
  /\ Len(search_with_scores(TheReader, Query(<<<<"B">>, <<"c">>>>, "AND"))) = 1
  /\ Len(search_with_scores(TheReader, Query(<<<<"B">>, <<"c">>>>, "or"))) = 2
  /\ search_with_scores(TheReader, Query(<<<<"c">>, <<"h">>>>, "AND")) = << >>

(***************************************************************************)
(* C14.  Each score search_with_scores returns is the sum, over the terms  *)
(* of the analyzed query with their repetitions, of tf * idf, where tf is  *)
(* the number of positions of the term in the document, and                *)
(* idf = 1 + (N - df + 0.5) / (df + 0.5) = (2N + 2) / (2df + 1) with df    *)
(* the reader's term_doc_freq and N its total_doc_count; the list is in    *)
(* non-increasing order of score.  Scores are scaled by ScoreScale.        *)
(***************************************************************************)
\* len(positions) of term for doc_id in the reader's index, 0 without a posting
TermFrequency(rd, term, doc_id) ==
  IF doc_id \in DocsPosting(rd, term)
  THEN LET i == CHOOSE j \in DOMAIN rd.inverted_index[term] :
                  rd.inverted_index[term][j].doc_id = doc_id
       IN Len(rd.inverted_index[term][i].positions)
  ELSE 0

\* the sum over the terms of tf * (2N + 2) * ScoreScale / (2df + 1)
RECURSIVE ExpectedScore(_, _, _, _)
ExpectedScore(rd, terms, doc_id, i) ==
  IF i = 0 THEN 0
  ELSE ExpectedScore(rd, terms, doc_id, i - 1)
         + (IF doc_id \in DocsPosting(rd, terms[i])
            THEN (TermFrequency(rd, terms[i], doc_id)
                    * (2 * rd.total_doc_count + 2) * ScoreScale)
                   \div (2 * rd.term_doc_freq[terms[i]] + 1)
            ELSE 0)

\* the analyzed terms of a query in order, repetitions kept
RECURSIVE AnalyzedList(_, _)
AnalyzedList(terms, i) ==
  IF i > Len(terms) THEN << >> ELSE Analyze(terms[i]) \o AnalyzedList(terms, i + 1)

C14_ScoresAndOrder ==
  r_open =>
    \A q \in Queries :
      LET scored_docs == search_with_scores(TheReader, q)
          terms == AnalyzedList(q.terms, 1)
      IN /\ \A i \in DOMAIN scored_docs :
              /\ scored_docs[i].score
                   = ExpectedScore(TheReader, terms, scored_docs[i].doc_id, Len(terms))
              /\ \A k \in DOMAIN terms :
                   scored_docs[i].doc_id \in DocsPosting(TheReader, terms[k]) =>
                     ScoreScale % (2 * TheReader.term_doc_freq[terms[k]] + 1) = 0
         /\ \A i \in DOMAIN scored_docs : \A j \in DOMAIN scored_docs :
              i < j => scored_docs[i].score >= scored_docs[j].score

\* a query that repeats a term scores a document twice, and two documents come
\* with different scores, the one that was indexed later first
C14_Witness ==
  /\ r_open
  /\ LET once == search_with_scores(TheReader, Query(<<<<"B">>>>, "OR"))
         twice == search_with_scores(TheReader, Query(<<<<"B">>, <<"b", " ", "c">>>>, "OR"))
     IN /\ Len(once) = 1 /\ Len(twice) = 2
        /\ twice[1].doc_id = once[1].doc_id
        /\ twice[1].score > 2 * once[1].score
        /\ twice[1].score > twice[2].score
  /\ LET byC == search_with_scores(TheReader, Query(<<<<"c">>>>, "OR"))
     IN /\ Len(byC) = 2
        /\ byC[1].score > byC[2].score
        /\ byC[1].doc_id # r_inverted_index[<<"c">>][1].doc_id

(***************************************************************************)
(* C18.  Analysis is idempotent: for every text of letters, digits and     *)
(* spaces, analyzing the terms of analyze(text) joined by single spaces    *)
(* gives the term sequence analyze(text).                                  *)
(***************************************************************************)
C18_AnalysisIdempotent == a_pc = "done" => a_again = a_terms

\* the same on the texts of ASCII letters, digits and spaces
C18_AsciiIdempotent ==
  (a_pc = "done" /\ "U+0130" \notin Range(a_text)) => a_again = a_terms

(***************************************************************************)
(* C15.  When segments.json lists several segments and one of them lacks   *)
(* its directory or one of its two files, a call of merge_all ends in an   *)
(* error and leaves segments.json and every segment directory as they      *)
(* are: it writes no new segment and deletes nothing.                      *)
(***************************************************************************)
MissingReferenced == \E n \in ManifestNames : ~CompleteDir(dirs[n])

C15_MergeAbortsOnMissingSegment ==
  [][(/\ m_pc = "idle"
      /\ segments_file.exists
      /\ Len(segments_file.data) > 1
      /\ MissingReferenced
      /\ nMerges' = nMerges + 1)
       => /\ lastOp' = "merge_error"
          /\ dirs' = dirs
          /\ segments_file' = segments_file]_vars

(***************************************************************************)
(* C16.  A commit that fails at the write of a file (inverted_index.json,  *)
(* document_store.json or segments.json) leaves segments.json on disk and  *)
(* the writer's in-memory segment list as they were before the call, and   *)
(* the commit retried after it adds exactly one entry for the segment:     *)
(* the manifest then lists the entries the writer found and one entry for  *)
(* each of its commits that succeeded.                                     *)
(***************************************************************************)
EntriesNamed(segments, name) == {i \in DOMAIN segments : segments[i].name = name}

C16_FailedCommitLeavesManifest ==
  [][/\ lastOp' = "commit_error" =>
          /\ segments_file' = segments_file
          /\ w_segments_info' = w_segments_info
     /\ (lastOp = "commit_error" /\ lastOp' = "commit") =>
          /\ segments_file'.data = w_segments_info'
          /\ Len(w_segments_info') = w_c0 + w_k'
          /\ Cardinality(EntriesNamed(w_segments_info', lastSegment')) = 1]_vars

(***************************************************************************)
(* C17.  An IndexReader is constructed only over an index whose            *)
(* segments.json is there and whose listed segments all have their         *)
(* inverted index file and their document store file: the constructor      *)
(* fails when the manifest or one of those files is missing.               *)
(***************************************************************************)
C17_ReaderFailsOnMissingFile ==
  [][lastOp' = "open_reader" =>
       /\ segments_file.exists
       /\ \A n \in ManifestNames :
            /\ dirs[n].inverted_index.exists
            /\ dirs[n].document_store.exists]_vars

(***************************************************************************)
(* C19.  Over segments that are all on disk, the reader merges a doc_id    *)
(* that several segments hold like the merger does: terms_docs returns the *)
(* positions of the earlier segment followed by those of the later one,    *)
(* and get_document returns the union of the stored fields, field by       *)
(* field, in which the later segment wins per field name and a field only  *)
(* the earlier segment holds is still returned.                            *)
(***************************************************************************)
\* the stored fields of doc_id in the first i segments, united field by field
RECURSIVE SegmentsFields(_, _, _, _)
SegmentsFields(doc_id, segments, ds, i) ==
  IF i = 0 THEN EmptyDict
  ELSE LET before == SegmentsFields(doc_id, segments, ds, i - 1)
           store == ds[segments[i].name].document_store.data
       IN IF doc_id \in DOMAIN store THEN Update(before, store[doc_id]) ELSE before

\* the positions of term for doc_id in the first i segments, one after the other
RECURSIVE SegmentsPositions(_, _, _, _, _)
SegmentsPositions(term, doc_id, segments, ds, i) ==
  IF i = 0 THEN << >>
  ELSE LET postings == Postings(ds[segments[i].name].inverted_index.data, term) IN
       SegmentsPositions(term, doc_id, segments, ds, i - 1)
         \o (IF doc_id \in PostingDocs(postings)
             THEN PositionsOf(postings, doc_id) ELSE << >>)

C19_ReaderUnionsLikeMerger ==
  (segments_file.exists /\ ~MissingReferenced) =>
    LET segments == segments_file.data
        merged == MergerLoad(segments, dirs)
    IN /\ \A t \in Terms : \A d \in DocIds :
            LET term_docs == terms_docs(DiskReader, t) IN
            (IF d \in PostingDocs(term_docs) THEN PositionsOf(term_docs, d) ELSE << >>)
              = SegmentsPositions(t, d, segments, dirs, Len(segments))
       /\ \A d \in DocIds :
            get_document(DiskReader, d)
              = SegmentsFields(d, segments, dirs, Len(segments))
       /\ DiskReader.inverted_index = merged.inverted_index
       /\ DiskReader.doc_store = merged.doc_store

(***************************************************************************)
(* C20.  In every merge_all that merges the steps come in this order: the  *)
(* two files of the new segment are written, then segments.json is         *)
(* rewritten to the one new entry, and only then is an old segment         *)
(* directory removed; so at every point between two steps every segment    *)
(* segments.json lists has its directory and its two files.                *)
(***************************************************************************)
C20_MergeStepsInOrder ==
  [][/\ (m_pc # "idle" /\ segments_file' # segments_file) =>
          /\ CompleteDir(dirs[MergedSegment])
          /\ dirs' = dirs
          /\ ManifestNames' = {MergedSegment}
     /\ (m_pc # "idle" /\ \E n \in DirNames : dirs[n].exists /\ ~dirs'[n].exists) =>
          /\ ManifestNames = {MergedSegment}
          /\ segments_file' = segments_file
     /\ m_pc' # "idle" => ManifestNames' \subseteq PresentSegments']_vars

(***************************************************************************)
(* C21.  A commit interrupted before segments.json is rewritten leaves the *)
(* manifest as it was, listing the segments committed before, and a reader *)
(* opened afterwards loads exactly what a reader opened before that commit *)
(* loaded.  The first commit of the next writer session writes to the name *)
(* of the directory the interrupted commit left, and the segment then      *)
(* holds what that session added and nothing else.                         *)
(***************************************************************************)
\* the stored fields a batch of documents leaves for doc_id: those of the last
\* document added under it
RECURSIVE BatchFieldsOf(_, _, _)
BatchFieldsOf(doc_id, docs, i) ==
  IF i = 0 THEN EmptyDict
  ELSE IF docs[i].doc_id = doc_id
       THEN [name \in {docs[i].fields[k].name : k \in DOMAIN docs[i].fields} |->
               LET k == CHOOSE m \in DOMAIN docs[i].fields :
                          /\ docs[i].fields[m].name = name
                          /\ LastOfName(docs[i].fields, m)
               IN docs[i].fields[k].value]
       ELSE BatchFieldsOf(doc_id, docs, i - 1)

SegmentStoresBatch(dir, docs) ==
  LET store == dir.document_store.data IN
  /\ DOMAIN store = {docs[i].doc_id : i \in DOMAIN docs}
  /\ \A d \in DOMAIN store : store[d] = BatchFieldsOf(d, docs, Len(docs))

C21_InterruptedCommitLeavesOrphan ==
  [][/\ lastOp' = "commit_interrupted" =>
          /\ segments_file' = segments_file
          /\ ManifestNames' \subseteq PresentSegments'
          /\ ReaderLoad(segments_file'.data, dirs') = ReaderLoad(segments_file.data, dirs)
     /\ (lastOp' = "commit" /\ w_k = 0 /\ orphan.name # "" /\ ~orphan.reused) =>
          /\ lastSegment' = orphan.name
          /\ orphan'.reused
          /\ CompleteDir(dirs'[orphan.name])
          /\ dirs'[orphan.name].inverted_index.parses
          /\ dirs'[orphan.name].document_store.parses
          /\ SegmentPostsBatch(dirs'[orphan.name], batch)
          /\ SegmentStoresBatch(dirs'[orphan.name], batch)
     /\ (orphan.name # "" /\ ~orphan'.reused) => orphan'.name \notin ManifestNames']_vars

\* a commit was interrupted with both files of its segment written while the
\* manifest listed a segment, and the next session's commit wrote other
\* documents to the same name
C21_Witness ==
  /\ lastOp = "commit"
  /\ w_k = 1
  /\ w_c0 >= 1
  /\ orphan.reused
  /\ orphan.name = lastSegment
  /\ CompleteDir(orphan.dir)
  /\ orphan.dir.document_store.parses
  /\ DOMAIN orphan.dir.document_store.data # {}
  /\ dirs[lastSegment].document_store.data # orphan.dir.document_store.data
  /\ DOMAIN dirs[lastSegment].document_store.data # {}

(***************************************************************************)
(* C22.  No committed document is lost: after any sequence of writer       *)
(* sessions and merge_all calls, one at a time, a reader opened on the     *)
(* directory returns stored fields for every doc_id that was committed,    *)
(* and its total_doc_count is the number of distinct committed doc_ids.    *)
(***************************************************************************)
CommittedIds == {committed[i].doc_id : i \in DOMAIN committed}

C22_NoCommittedDocumentLost ==
  (segments_file.exists /\ m_pc = "idle") =>
    /\ \A d \in CommittedIds : DOMAIN get_document(DiskReader, d) # {}
    /\ DiskReader.total_doc_count = Cardinality(CommittedIds)

(***************************************************************************)
(* C23.  In any sequence of writer sessions and merge_all calls, one at a  *)
(* time, the name a commit writes to, segment_ and the writer's counter,   *)
(* is not a name segments.json lists: the manifest never holds a name      *)
(* twice, and a commit leaves the directory of every listed segment as it  *)
(* is.                                                                     *)
(***************************************************************************)
NoNameTwice(segments) ==
  \A i \in DOMAIN segments : \A j \in DOMAIN segments :
    segments[i].name = segments[j].name => i = j

C23_CommitNameIsFresh ==
  [][/\ lastOp' = "commit" =>
          /\ SegmentName(w_segment_count) \notin ManifestNames
          /\ lastSegment' = SegmentName(w_segment_count)
          /\ \A n \in ManifestNames : dirs'[n] = dirs[n]
          /\ ManifestNames' = ManifestNames \cup {lastSegment'}
     /\ segments_file'.exists => NoNameTwice(segments_file'.data)]_vars

\* a writer opened after a merge has committed: the manifest lists
\* merged_segment and the segment of that session, segment_001
C23_Witness ==
  /\ lastOp = "commit"
  /\ w_k = 1
  /\ w_c0 = 1
  /\ Len(segments_file.data) = 2
  /\ segments_file.data[1].name = MergedSegment
  /\ segments_file.data[2].name = SegmentName(1)
  /\ CompleteDir(dirs[MergedSegment])
  /\ CompleteDir(dirs[SegmentName(1)])

(***************************************************************************)
(* C24.  After any sequence of commits and merges the doc_count of every   *)
(* entry of segments.json is the number of distinct doc_ids in the         *)
(* document store of its segment, also when add_document was given a       *)
(* doc_id more than once before the commit.                                *)
(***************************************************************************)
C24_DocCountIsDistinctDocs ==
  (segments_file.exists /\ m_pc = "idle") =>
    \A i \in DOMAIN segments_file.data :
      LET dir == dirs[segments_file.data[i].name] IN
      CompleteDir(dir) =>
        segments_file.data[i].doc_count = Cardinality(DOMAIN dir.document_store.data)

=============================================================================
